---- MODULE Spec2Model ----
(***************************************************************************)
(* Tree of Thought solver (Skills/Agentic_AI/Reasoning_Models/             *)
(* tree_of_thought.py): TreeOfThoughtSolver.solve with its two traversals  *)
(* _bfs and _dfs over SearchNode records, driven by an abstract Generator  *)
(* and an abstract Evaluator.                                              *)
(*                                                                         *)
(* Scores are the source's floats times 100 (0.3 -> 30, 0.5 -> 50,         *)
(* 0.9 -> 90), so every comparison of the source is an integer comparison. *)
(* An optional value (Optional[SearchNode], a returned dict or none) is a  *)
(* sequence of length 0 or 1.                                              *)
(*                                                                         *)
(* Spec lets the generator and the evaluator answer every call afresh;     *)
(* SpecDet makes them functions of their arguments and follows several     *)
(* solve calls on one Solver.  log records the capability calls of the     *)
(* solve call in progress.                                                 *)
(***************************************************************************)
EXTENDS Integers, Sequences, FiniteSets, TLC

(* ------------------------------ bounds -------------------------------- *)

\* Longest list a generate_thoughts call returns.
MaxThoughts == 6
\* Most evaluator calls explored within one solve call.
MaxEvals == 6
\* The same, and the most solve calls on one Solver, where the capabilities
\* are deterministic and their answers are kept from call to call.
MaxEvalsDet == 4
MaxCalls == 2
\* Longest response of the language model, in characters.
MaxResponseLen == 4

(* ------------------------- program constants -------------------------- *)

PruneThreshold == 30
SuccessThreshold == 90
BeamWidth == 5
RootScore == 50

(* --------------------------- input domains ---------------------------- *)

\* Strategy tags a caller may construct the Solver with; "beam" is not one
\* of the two tags solve knows.
Strategies == {"bfs", "dfs", "beam"}
\* max_depth values of the constructed Solver (5 is the default).
MaxDepths == {0, 1, 5}
\* The Solvers constructed: the default depth with the default
\* branching_factor 3, the shallower ones asking for 2 thoughts.
Configs ==
    {[strategy |-> s, max_depth |-> d, branching_factor |-> IF d = 5 THEN 3 ELSE 2] :
        s \in Strategies, d \in MaxDepths}
\* Scores an evaluator returns: pruned, on the prune threshold, between the
\* root's score and the success threshold, on the success threshold.
Scores == {10, 30, 70, 90}
\* The same with the root's own score in the place of the prune threshold.
SeedScores == {10, 50, 70, 90}
\* Elapsed wall time, in ticks of the clock.
Durations == {0, 1}
\* The problem text handed to solve.
Problem == "P"
\* Thought texts, in the order a generator lists them.
Pool == <<"A", "DONE", "Start", "A", "B", "C", "D">>
PoolAt(i) == Pool[((i - 1) % Len(Pool)) + 1]
Listing(k) == [i \in 1..k |-> PoolAt(i)]
\* Lists a generate_thoughts call may return: the first k thoughts of the
\* listing (from the fourth on, a thought repeats an earlier one).
GenOutputs == {Listing(k) : k \in 0..MaxThoughts}

(* ------------------------------ SearchNode ---------------------------- *)

RECURSIVE Join(_)
\* "\n".join(parts)
Join(parts) ==
    IF Len(parts) = 0 THEN ""
    ELSE IF Len(parts) = 1 THEN parts[1]
    ELSE parts[1] \o "\n" \o Join(Tail(parts))

\* SearchNode.get_full_path
GetFullPath(n) == Join(Append(n.path_history, n.state))

\* The root node solve builds.
Root ==
    [state |-> "Start", parent |-> <<>>, score |-> RootScore, depth |-> 0,
     path_history |-> <<>>]

\* path_history=node.path_history + [node.state]
ChildHistoryNoParentState(n) == n.path_history
ChildHistory(n) == Append(n.path_history, n.state)

\* The child SearchNode a traversal builds for an accepted thought.
MakeChild(n, thought, score, d) ==
    [state |-> thought, parent |-> <<n>>, score |-> score, depth |-> d,
     path_history |-> ChildHistory(n)]

\* The state text handed to the generator for a node.
GenState(n) == IF n.state # "Start" THEN n.state ELSE ""

\* The text handed to the evaluator for a candidate thought of a node.
FullStateLastStep(n, thought) == n.state \o "\n" \o thought
FullState(n, thought) == GetFullPath(n) \o "\n" \o thought

(* ------------------------- thresholds and beam ------------------------ *)

\* if score < 0.3: continue
NeverPruned(score) == FALSE
Pruned(score) == score < PruneThreshold

\* if score >= 0.9: return child   (_bfs, as each child is created)
NeverFound(score) == FALSE
FoundAboveOnly(score) == score > SuccessThreshold
BfsFound(score) == score >= SuccessThreshold

\* if node.score >= 0.9: return node   (both traversals, before expansion)
Solved(n) == n.score >= SuccessThreshold

\* for depth in range(self.max_depth)   (_bfs: whether level depth is run)
InRangeInclusive(d, limit) == d <= limit
InRange(d, limit) == d < limit

\* if node.depth > self.max_depth: continue   (_dfs, as a node is popped)
NeverTooDeep(n, limit) == FALSE
TooDeepByTwo(n, limit) == n.depth > limit + 1
TooDeep(n, limit) == n.depth > limit

\* if node.score > best_node.score: best_node = node
LatestBest(n, best) == IF n.score >= best.score THEN n ELSE best
AlwaysLatest(n, best) == n
Best(n, best) == IF n.score > best.score THEN n ELSE best

\* for thought in reversed(thoughts): the index into thoughts that the k-th
\* turn of the loop takes.
ForwardIndex(ts, k) == k
ReversedIndex(ts, k) == Len(ts) + 1 - k

\* self.nodes_explored += 1, once per candidate and before it is evaluated.
\* r is what the evaluator call of the candidate ends with.
CountSurvivorsOnly(n, r) == IF r.ok /\ r.val < PruneThreshold THEN n ELSE n + 1
CountCandidate(n, r) == n + 1

RECURSIVE InsertBeforeEqual(_, _)
InsertBeforeEqual(sorted, x) ==
    IF Len(sorted) = 0 THEN <<x>>
    ELSE IF sorted[1].score > x.score
         THEN <<sorted[1]>> \o InsertBeforeEqual(Tail(sorted), x)
         ELSE <<x>> \o sorted

RECURSIVE InsertDesc(_, _)
\* x placed behind every element whose score is at least x's.
InsertDesc(sorted, x) ==
    IF Len(sorted) = 0 THEN <<x>>
    ELSE IF sorted[1].score >= x.score
         THEN <<sorted[1]>> \o InsertDesc(Tail(sorted), x)
         ELSE <<x>> \o sorted

RECURSIVE SortDesc(_)
\* next_queue.sort(key=lambda x: x.score, reverse=True): stable, descending.
SortDesc(s) ==
    IF Len(s) = 0 THEN <<>>
    ELSE InsertDesc(SortDesc(SubSeq(s, 1, Len(s) - 1)), s[Len(s)])

\* queue = next_queue[:5]
WholeLevel(sorted) == sorted
Beam(sorted) ==
    SubSeq(sorted, 1, IF Len(sorted) < BeamWidth THEN Len(sorted) ELSE BeamWidth)

\* return queue[0] if queue else None
BfsResultLast(q) == IF Len(q) > 0 THEN <<q[Len(q)]>> ELSE <<>>
BfsResultOrRoot(q) == IF Len(q) > 0 THEN <<q[1]>> ELSE <<Root>>
BfsResult(q) == IF Len(q) > 0 THEN <<q[1]>> ELSE <<>>

(* ------------------------------ outcome ------------------------------- *)

\* The dict solve returns for a result node (lines 210-218) or for none.
MakeOutcomeLastStep(res, explored, duration) ==
    IF res # <<>>
    THEN [status |-> "solved", solution |-> res[1].state,
          final_score |-> res[1].score, depth |-> res[1].depth,
          nodes_explored |-> explored, duration |-> duration]
    ELSE [status |-> "failed", reason |-> "Max depth or no solution found",
          nodes_explored |-> explored, duration |-> duration]
MakeOutcome(res, explored, duration) ==
    IF res # <<>>
    THEN [status |-> "solved", solution |-> GetFullPath(res[1]),
          final_score |-> res[1].score, depth |-> res[1].depth,
          nodes_explored |-> explored, duration |-> duration]
    ELSE [status |-> "failed", reason |-> "Max depth or no solution found",
          nodes_explored |-> explored, duration |-> duration]

\* if self.strategy == "bfs" ... elif "dfs" ... else raise ValueError: the
\* traversal solve runs for a strategy tag, "" for none.
FallBackToBfs(tag) == IF tag = "dfs" THEN "dfs" ELSE "bfs"
Dispatch(tag) == IF tag = "bfs" THEN "bfs" ELSE IF tag = "dfs" THEN "dfs" ELSE ""

\* self.nodes_explored = 0 at the start of solve.
KeepExplored(n) == n
ResetExplored(n) == 0

(* ---------------------------- LLMEvaluator ---------------------------- *)

\* The characters of a response: digits, the point, a blank, a letter.
Alphabet == {"0", "1", "7", ".", " ", "x"}
Digits == {"0", "1", "7"}
DigitValue(c) == IF c = "0" THEN 0 ELSE IF c = "1" THEN 1 ELSE 7

\* What self.llm.generate(prompt, temperature=0.1) ends with: a text, a
\* value that is no string, an exception of class Exception, or one of the
\* exit signals that derive from BaseException only.
LLMResponses ==
    {[kind |-> "text", text |-> t] :
        t \in UNION {[1..k -> Alphabet] : k \in 0..MaxResponseLen}}
    \cup {[kind |-> k, text |-> <<>>] : k \in {"none", "error", "exit"}}

RECURSIVE LStrip(_)
LStrip(t) == IF t # <<>> /\ t[1] = " " THEN LStrip(Tail(t)) ELSE t
RECURSIVE RStrip(_)
RStrip(t) ==
    IF t # <<>> /\ t[Len(t)] = " " THEN RStrip(SubSeq(t, 1, Len(t) - 1)) ELSE t
\* str.strip()
Strip(t) == RStrip(LStrip(t))

RECURSIVE DigitsEnd(_, _)
\* The last index of the run of digits of t that starts at i (\d+, greedy).
DigitsEnd(t, i) ==
    IF i + 1 <= Len(t) /\ t[i + 1] \in Digits THEN DigitsEnd(t, i + 1) ELSE i

\* The match of 0\.\d+|1\.0|1 that starts at index i of t, <<>> for none.
MatchAnyNumberAt(t, i) ==
    IF t[i] \in Digits THEN SubSeq(t, i, DigitsEnd(t, i)) ELSE <<>>
MatchAt(t, i) ==
    IF t[i] = "0" /\ i + 2 <= Len(t) /\ t[i + 1] = "." /\ t[i + 2] \in Digits
    THEN SubSeq(t, i, DigitsEnd(t, i + 2))
    ELSE IF t[i] = "1" /\ i + 2 <= Len(t) /\ t[i + 1] = "." /\ t[i + 2] = "0"
    THEN SubSeq(t, i, i + 2)
    ELSE IF t[i] = "1" THEN <<"1">>
    ELSE <<>>

RECURSIVE SearchFrom(_, _)
SearchFrom(t, i) ==
    IF i > Len(t) THEN <<>>
    ELSE IF MatchAt(t, i) # <<>> THEN MatchAt(t, i)
    ELSE SearchFrom(t, i + 1)
\* re.search(r"0\.\d+|1\.0|1", response): the leftmost match.
Search(t) == SearchFrom(t, 1)

RECURSIVE ToInt(_)
ToInt(ds) ==
    IF ds = <<>> THEN 0
    ELSE 10 * ToInt(SubSeq(ds, 1, Len(ds) - 1)) + DigitValue(ds[Len(ds)])
RECURSIVE Pow10(_)
Pow10(k) == IF k = 0 THEN 1 ELSE 10 * Pow10(k - 1)

\* float(match.group(0)) as the fraction num/den: digits, then the digits
\* behind a point if there is one.
Float(m) ==
    LET point == {i \in DOMAIN m : m[i] = "."}
        whole == IF point = {} THEN m ELSE SubSeq(m, 1, (CHOOSE i \in point : TRUE) - 1)
        frac == IF point = {} THEN <<>>
                ELSE SubSeq(m, (CHOOSE i \in point : TRUE) + 1, Len(m))
    IN [num |-> ToInt(whole) * Pow10(Len(frac)) + ToInt(frac), den |-> Pow10(Len(frac))]

\* return 0.5
Fallback == [num |-> 5, den |-> 10]

\* except Exception: what the try block raised is caught there. A value
\* that is no string has no strip(): AttributeError.
CaughtNothing(kind) == FALSE
Caught(kind) == kind \in {"none", "error"}

\* LLMEvaluator.evaluate for a call of the model that ends with r: the
\* value returned, or the exception that leaves evaluate.
LLMEvaluatorEvaluate(r) ==
    IF r.kind = "text"
    THEN LET match == Search(Strip(r.text)) IN
         [raised |-> FALSE, value |-> IF match # <<>> THEN Float(match) ELSE Fallback]
    ELSE IF Caught(r.kind) THEN [raised |-> FALSE, value |-> Fallback]
    ELSE [raised |-> TRUE, value |-> Fallback]

(* ------------------------------- state -------------------------------- *)

VARIABLES
    strategy, max_depth, branching_factor,  \* the Solver's configuration
    nodes_explored,                         \* the Solver's counter
    pc,                                     \* where the solve call stands
    queue, next_queue, depth, qi,           \* _bfs: frontier, children, level, node index
    stack, best_node,                       \* _dfs: stack and best node so far
    node, thoughts, ti,                     \* the node being expanded, its thoughts, the index
    result_node,                            \* what the traversal returned
    outcome, raised,                        \* what solve returned or raised
    det, genMemo, evalMemo,                 \* deterministic capabilities: their answers so far
    calls, prev,                            \* solve calls made, the previous call's end
    log,                                    \* the capability calls of this solve call
    trace,                                  \* whether log keeps the depth-first pops
    generator, score_range,                 \* the generator's class, the evaluator's scores
    llm_response, llm_score                 \* LLMEvaluator: the model's answer, evaluate's end

config ==
    <<strategy, max_depth, branching_factor, det, trace, generator, score_range>>
memos == <<genMemo, evalMemo>>
vars ==
    <<strategy, max_depth, branching_factor, nodes_explored, pc, queue,
      next_queue, depth, qi, stack, best_node, node, thoughts, ti,
      result_node, outcome, raised, det, genMemo, evalMemo, calls, prev, log,
      trace, generator, score_range, llm_response, llm_score>>
solver ==
    <<strategy, max_depth, branching_factor, nodes_explored, pc, queue,
      next_queue, depth, qi, stack, best_node, node, thoughts, ti,
      result_node, outcome, raised, det, genMemo, evalMemo, calls, prev, log,
      trace, generator, score_range>>
llm == <<llm_response, llm_score>>

\* Nothing called yet in this solve call. levels counts the breadth levels
\* completed, level holds the last one's surviving children as generated.
\* A node's place in the tree is the list of generation indices from the
\* root down to it: places holds the place of every stacked node, pops the
\* nodes popped so far with their places, pushed the generation indices of
\* the children the expansion under way or just finished has pushed.
EmptyLog ==
    [evals |-> 0, gens |-> 0, emptyGens |-> 0, lowEvals |-> 0,
     hit |-> <<>>, popHit |-> <<>>,
     levels |-> 0, level |-> <<>>, genErrors |-> 0,
     places |-> <<>>, pops |-> <<>>, pushed |-> <<>>, genCall |-> <<>>]

\* The latest generate_thoughts call: its three arguments, and of the node
\* it expands the state text and whether it is the root.
GenCall(n, bf) ==
    <<[state |-> GenState(n), problem |-> Problem, n |-> bf,
       own |-> n.state, root |-> n.parent = <<>>]>>

\* The log of a depth-first call that ends: its stack and its pops are gone.
Ended(l) == [l EXCEPT !.places = <<>>, !.pops = <<>>, !.pushed = <<>>]

\* The log as kept: with the pops only where they are traced.
Kept(l) == IF trace THEN l ELSE Ended(l)

(* ---------------------------- capabilities ---------------------------- *)

\* What a capability call ends with: a value, or an exception.
GenResults ==
    {[ok |-> TRUE, val |-> l] : l \in GenOutputs} \cup {[ok |-> FALSE, val |-> <<>>]}
EvalResults ==
    {[ok |-> TRUE, val |-> s] : s \in score_range} \cup {[ok |-> FALSE, val |-> 0]}

\* return thoughts[:n]   (LLMGenerator.generate_thoughts)
NoTruncate(ts, n) == ts
Truncate(ts, n) == SubSeq(ts, 1, IF Len(ts) < n THEN Len(ts) ELSE n)

\* What a call of LLMGenerator.generate_thoughts with n ends with: the first
\* n of the thoughts its model listed, or the exception of the model call.
LLMGenResults(n) ==
    {[ok |-> TRUE, val |-> Truncate(l, n)] : l \in GenOutputs}
        \cup {[ok |-> FALSE, val |-> <<>>]}

Lookup(memo, key) == {p[2] : p \in {q \in memo : q[1] = key}}
\* A deterministic capability answers the same arguments the same way.
Answers(memo, key, domain) ==
    IF det /\ Lookup(memo, key) # {} THEN Lookup(memo, key) ELSE domain
Remember(memo, key, r) == IF det THEN memo \cup {<<key, r>>} ELSE memo

\* Generator.generate_thoughts(state, problem, n): any list or an exception.
GenerateThoughts(state, problem, n) ==
    Answers(genMemo, <<state, problem, n>>,
            IF generator = "LLMGenerator" THEN LLMGenResults(n) ELSE GenResults)

\* Evaluator.evaluate(state, problem): any score or an exception.
Evaluate(state, problem) ==
    Answers(evalMemo, <<state, problem>>, EvalResults)

\* Evaluator calls a solve call is explored for.
Budget == IF det THEN MaxEvalsDet ELSE MaxEvals

(* ----------------------------- the steps ------------------------------ *)

Constructed ==
    /\ \E c \in Configs :
          /\ strategy = c.strategy
          /\ max_depth = c.max_depth
          /\ branching_factor = c.branching_factor
    /\ nodes_explored = 0
    /\ pc = "idle"
    /\ queue = <<>> /\ next_queue = <<>> /\ depth = 0 /\ qi = 0
    /\ stack = <<>> /\ best_node = <<>>
    /\ node = <<>> /\ thoughts = <<>> /\ ti = 0
    /\ result_node = <<>> /\ outcome = <<>> /\ raised = ""
    /\ genMemo = {} /\ evalMemo = {}
    /\ calls = 0 /\ prev = <<>>
    /\ log = EmptyLog
    /\ llm_score = <<>>

\* No LLMEvaluator call is under way.
NoResponse == [kind |-> "text", text |-> <<>>]

\* Capabilities of any class: a generator that lists as many thoughts as it
\* likes, an evaluator with the scores of Scores.
AnyCapabilities == generator = "Generator" /\ score_range = Scores

\* Capabilities that may answer the same arguments differently each time.
Init ==
    Constructed /\ det = FALSE /\ trace = FALSE /\ AnyCapabilities
        /\ llm_response = NoResponse

\* Capabilities that are functions of their arguments.
InitDet ==
    Constructed /\ det = TRUE /\ trace = FALSE /\ AnyCapabilities
        /\ llm_response = NoResponse

\* A Solver whose generator is an LLMGenerator.
InitGen ==
    Constructed /\ det = FALSE /\ trace = FALSE
        /\ generator = "LLMGenerator" /\ score_range = Scores
        /\ llm_response = NoResponse

\* A depth-first Solver whose pops are traced.
InitDfs ==
    Constructed /\ det = FALSE /\ trace = TRUE /\ strategy = "dfs"
        /\ AnyCapabilities /\ llm_response = NoResponse

\* A depth-first Solver, traced, whose evaluator may score a path as the
\* root is scored.
InitSeed ==
    Constructed /\ det = FALSE /\ trace = TRUE /\ strategy = "dfs"
        /\ generator = "Generator" /\ score_range = SeedScores
        /\ llm_response = NoResponse

\* An LLMEvaluator and the answer its model is about to give.
InitLLM ==
    Constructed /\ det = FALSE /\ trace = FALSE /\ AnyCapabilities
        /\ llm_response \in LLMResponses

\* The traversal's locals are gone when solve ends.
ClearLocals ==
    /\ queue' = <<>> /\ next_queue' = <<>> /\ depth' = 0 /\ qi' = 0
    /\ stack' = <<>> /\ best_node' = <<>>
    /\ node' = <<>> /\ thoughts' = <<>> /\ ti' = 0

\* The traversal returns res; solve assembles the outcome (lines 208-225).
Return(res, explored) ==
    /\ pc' = "idle"
    /\ result_node' = res
    /\ \E d \in Durations : outcome' = <<MakeOutcome(res, explored, d)>>
    /\ raised' = ""
    /\ ClearLocals

\* An exception leaves solve: no outcome.
Raise(error) ==
    /\ pc' = "idle"
    /\ result_node' = <<>>
    /\ outcome' = <<>>
    /\ raised' = error
    /\ ClearLocals

\* solve, up to the call of the traversal (lines 189-206).
Solve ==
    /\ pc = "idle"
    /\ det => calls < MaxCalls
    /\ calls' = IF det THEN calls + 1 ELSE calls
    /\ prev' = IF det THEN <<[outcome |-> outcome, raised |-> raised]>> ELSE prev
    /\ nodes_explored' = ResetExplored(nodes_explored)
    /\ log' = IF Dispatch(strategy) = "dfs"
              THEN Kept([EmptyLog EXCEPT !.places = << <<>> >>]) ELSE EmptyLog
    /\ IF Dispatch(strategy) = "bfs"
       THEN /\ pc' = "bfs_level"
            /\ queue' = <<Root>> /\ next_queue' = <<>> /\ depth' = 0 /\ qi' = 0
            /\ outcome' = <<>> /\ raised' = "" /\ result_node' = <<>>
            /\ UNCHANGED <<stack, best_node, node, thoughts, ti>>
       ELSE IF Dispatch(strategy) = "dfs"
       THEN /\ pc' = "dfs_pop"
            /\ stack' = <<Root>> /\ best_node' = <<Root>>
            /\ outcome' = <<>> /\ raised' = "" /\ result_node' = <<>>
            /\ UNCHANGED <<queue, next_queue, depth, qi, node, thoughts, ti>>
       ELSE Raise("ValueError")
    /\ UNCHANGED <<llm, config, memos>>

\* for depth in range(self.max_depth), and the return behind the loop.
BfsLevel ==
    /\ pc = "bfs_level"
    /\ IF InRange(depth, max_depth)
       THEN /\ next_queue' = <<>> /\ qi' = 1 /\ pc' = "bfs_node"
            /\ UNCHANGED <<queue, depth, stack, best_node, node, thoughts, ti,
                           result_node, outcome, raised>>
       ELSE Return(BfsResult(queue), nodes_explored)
    /\ UNCHANGED <<llm, config, memos, nodes_explored, calls, prev, log>>

\* for node in queue: the early exit and the generator call (lines 237-246).
BfsExpand ==
    /\ pc = "bfs_node"
    /\ qi <= Len(queue)
    /\ LET n == queue[qi] IN
       IF Solved(n)
       THEN /\ Return(<<n>>, nodes_explored)
            /\ UNCHANGED <<memos, log>>
       ELSE \E r \in GenerateThoughts(GenState(n), Problem, branching_factor) :
            /\ Len(r.val) <= Budget - log.evals
            /\ genMemo' = Remember(genMemo, <<GenState(n), Problem, branching_factor>>, r)
            /\ log' = [log EXCEPT !.gens = @ + 1,
                                  !.emptyGens = IF r.ok /\ r.val = <<>> THEN @ + 1 ELSE @,
                                  !.genErrors = IF r.ok THEN @ ELSE @ + 1,
                                  !.genCall = GenCall(n, branching_factor)]
            /\ UNCHANGED evalMemo
            /\ IF ~r.ok
               THEN Raise("GeneratorError")
               ELSE /\ IF r.val = <<>>
                       THEN /\ qi' = qi + 1
                            /\ UNCHANGED <<pc, node, thoughts, ti>>
                       ELSE /\ pc' = "bfs_thought"
                            /\ node' = <<n>> /\ thoughts' = r.val /\ ti' = 1
                            /\ UNCHANGED qi
                    /\ UNCHANGED <<queue, next_queue, depth, stack, best_node,
                                   result_node, outcome, raised>>
    /\ UNCHANGED <<llm, config, nodes_explored, calls, prev>>

\* for thought in thoughts: count, evaluate, prune, build the child (lines 248-269).
BfsThought ==
    /\ pc = "bfs_thought"
    /\ LET n == node[1]
           thought == thoughts[ti]
           full_state == FullState(n, thought)
       IN \E r \in Evaluate(full_state, Problem) :
          LET explored == CountCandidate(nodes_explored, r)
              child == MakeChild(n, thought, r.val, depth + 1)
              found == r.ok /\ ~Pruned(r.val) /\ BfsFound(r.val)
          IN
          /\ nodes_explored' = explored
          /\ evalMemo' = Remember(evalMemo, <<full_state, Problem>>, r)
          /\ UNCHANGED genMemo
          /\ log' = [log EXCEPT
                       !.evals = @ + 1,
                       !.lowEvals = IF r.ok /\ r.val < PruneThreshold THEN @ + 1 ELSE @,
                       !.hit = IF @ = <<>> /\ r.ok /\ r.val >= SuccessThreshold
                               THEN <<[at |-> log.evals + 1, gens |-> log.gens,
                                       path |-> full_state, depth |-> depth + 1,
                                       rest |-> Len(thoughts) - ti]>>
                               ELSE @]
          /\ IF ~r.ok THEN Raise("EvaluatorError")
             ELSE IF found THEN Return(<<child>>, explored)
             ELSE /\ next_queue' = IF Pruned(r.val) THEN next_queue
                                   ELSE Append(next_queue, child)
                  /\ IF ti < Len(thoughts)
                     THEN /\ ti' = ti + 1
                          /\ UNCHANGED <<pc, qi, node, thoughts>>
                     ELSE /\ pc' = "bfs_node" /\ qi' = qi + 1
                          /\ node' = <<>> /\ thoughts' = <<>> /\ ti' = 0
                  /\ UNCHANGED <<queue, depth, stack, best_node, result_node,
                                 outcome, raised>>
    /\ UNCHANGED <<llm, config, calls, prev>>

\* Behind the last node of a level: sort, keep the beam, stop on an empty one
\* (lines 271-276).
BfsBeam ==
    /\ pc = "bfs_node"
    /\ qi > Len(queue)
    /\ LET sorted == SortDesc(next_queue)
           kept == Beam(sorted)
       IN IF kept = <<>>
          THEN Return(BfsResult(kept), nodes_explored)
          ELSE /\ queue' = kept /\ next_queue' = sorted
               /\ depth' = depth + 1 /\ qi' = 0 /\ pc' = "bfs_level"
               /\ UNCHANGED <<stack, best_node, node, thoughts, ti, result_node,
                              outcome, raised>>
    /\ log' = [log EXCEPT !.levels = @ + 1, !.level = next_queue]
    /\ UNCHANGED <<llm, config, memos, nodes_explored, calls, prev>>

\* while stack: pop, skip, track the best, exit early, call the generator
\* (lines 285-300).
DfsPop ==
    /\ pc = "dfs_pop"
    /\ stack # <<>>
    /\ LET n == stack[Len(stack)]
           rest == SubSeq(stack, 1, Len(stack) - 1)
           place == IF trace THEN log.places[Len(stack)] ELSE <<>>
           seen == Kept([log EXCEPT
                       !.popHit =
                         IF @ = <<>> /\ n.score >= SuccessThreshold
                         THEN <<[gens |-> log.gens, evals |-> log.evals,
                                 path |-> GetFullPath(n), depth |-> n.depth]>>
                         ELSE @,
                       !.pops = Append(@, [place |-> place, node |-> n]),
                       !.places = IF trace THEN SubSeq(@, 1, Len(stack) - 1) ELSE @,
                       !.pushed = <<>>])
       IN
       IF TooDeep(n, max_depth)
       THEN /\ stack' = rest
            /\ log' = seen
            /\ UNCHANGED <<pc, queue, next_queue, depth, qi, best_node, node,
                           thoughts, ti, result_node, outcome, raised, memos>>
       ELSE LET best == <<Best(n, best_node[1])>> IN
            IF Solved(n)
            THEN /\ Return(<<n>>, nodes_explored)
                 /\ log' = Ended(seen)
                 /\ UNCHANGED memos
            ELSE \E r \in GenerateThoughts(GenState(n), Problem, branching_factor) :
                 /\ Len(r.val) <= Budget - log.evals
                 /\ genMemo' = Remember(genMemo, <<GenState(n), Problem, branching_factor>>, r)
                 /\ log' = IF r.ok
                           THEN [seen EXCEPT !.gens = @ + 1,
                                             !.emptyGens = IF r.val = <<>> THEN @ + 1 ELSE @,
                                             !.genCall = GenCall(n, branching_factor)]
                           ELSE Ended([seen EXCEPT !.gens = @ + 1, !.genErrors = @ + 1,
                                                   !.genCall = GenCall(n, branching_factor)])
                 /\ UNCHANGED evalMemo
                 /\ IF ~r.ok
                    THEN Raise("GeneratorError")
                    ELSE /\ stack' = rest
                         /\ best_node' = best
                         /\ IF r.val = <<>>
                            THEN UNCHANGED <<pc, node, thoughts, ti>>
                            ELSE /\ pc' = "dfs_thought"
                                 /\ node' = <<n>> /\ thoughts' = r.val
                                 /\ ti' = Len(r.val)
                         /\ UNCHANGED <<queue, next_queue, depth, qi, result_node,
                                        outcome, raised>>
    /\ UNCHANGED <<llm, config, nodes_explored, calls, prev>>

\* for thought in reversed(thoughts): count, evaluate, prune, push the child
\* (lines 303-317).
DfsThought ==
    /\ pc = "dfs_thought"
    /\ LET n == node[1]
           index == ReversedIndex(thoughts, Len(thoughts) + 1 - ti)
           thought == thoughts[index]
           full_state == FullState(n, thought)
           place == IF trace THEN Append(log.pops[Len(log.pops)].place, index) ELSE <<>>
       IN \E r \in Evaluate(full_state, Problem) :
          LET child == MakeChild(n, thought, r.val, n.depth + 1)
              counted == [log EXCEPT
                       !.evals = @ + 1,
                       !.lowEvals = IF r.ok /\ r.val < PruneThreshold THEN @ + 1 ELSE @,
                       !.hit = IF @ = <<>> /\ r.ok /\ r.val >= SuccessThreshold
                               THEN <<[at |-> log.evals + 1, gens |-> log.gens,
                                       path |-> full_state, depth |-> n.depth + 1,
                                       rest |-> ti - 1]>>
                               ELSE @]
          IN
          /\ nodes_explored' = CountCandidate(nodes_explored, r)
          /\ evalMemo' = Remember(evalMemo, <<full_state, Problem>>, r)
          /\ UNCHANGED genMemo
          /\ log' = IF ~r.ok THEN Ended(counted)
                     ELSE IF Pruned(r.val) THEN counted
                     ELSE Kept([counted EXCEPT !.places = Append(@, place),
                                               !.pushed = Append(@, index)])
          /\ IF ~r.ok THEN Raise("EvaluatorError")
             ELSE /\ stack' = IF Pruned(r.val) THEN stack ELSE Append(stack, child)
                  /\ IF ti > 1
                     THEN /\ ti' = ti - 1
                          /\ UNCHANGED <<pc, node, thoughts>>
                     ELSE /\ pc' = "dfs_pop"
                          /\ node' = <<>> /\ thoughts' = <<>> /\ ti' = 0
                  /\ UNCHANGED <<queue, next_queue, depth, qi, best_node,
                                 result_node, outcome, raised>>
    /\ UNCHANGED <<llm, config, calls, prev>>

\* The stack is empty: return best_node (line 319).
DfsBest ==
    /\ pc = "dfs_pop"
    /\ stack = <<>>
    /\ Return(best_node, nodes_explored)
    /\ log' = Ended(log)
    /\ UNCHANGED <<llm, config, memos, nodes_explored, calls, prev>>

Next ==
    \/ Solve
    \/ BfsLevel
    \/ BfsExpand
    \/ BfsThought
    \/ BfsBeam
    \/ DfsPop
    \/ DfsThought
    \/ DfsBest

Spec == Init /\ [][Next]_vars

SpecDet == InitDet /\ [][Next]_vars

\* The steps of a depth-first Solver.
NextDfs ==
    \/ Solve
    \/ DfsPop
    \/ DfsThought
    \/ DfsBest

SpecDfs == InitDfs /\ [][NextDfs]_vars

SpecGen == InitGen /\ [][Next]_vars

SpecSeed == InitSeed /\ [][NextDfs]_vars

\* LLMEvaluator.evaluate(state, problem_description), lines 101-129.
LLMEvaluate ==
    /\ llm_score = <<>>
    /\ llm_score' = <<LLMEvaluatorEvaluate(llm_response)>>
    /\ UNCHANGED <<solver, llm_response>>

NextLLM == LLMEvaluate

SpecLLM == InitLLM /\ [][NextLLM]_vars

(* ------------------------- what the claims read ----------------------- *)

Elems(s) == {s[i] : i \in DOMAIN s}

\* Every SearchNode a variable of the solve call holds.
LiveNodes ==
    Elems(queue) \cup Elems(next_queue) \cup Elems(stack) \cup Elems(best_node)
        \cup Elems(node) \cup Elems(result_node)

\* A solve call has ended, with an outcome.
Returned == pc = "idle" /\ outcome # <<>>

RECURSIVE ChainAbovePrune(_)
\* Every non-root node from n up to the root scores at least the prune threshold.
ChainAbovePrune(n) ==
    n.parent = <<>> \/ (n.score >= PruneThreshold /\ ChainAbovePrune(n.parent[1]))

RECURSIVE ChainWellFormed(_)
\* From n up to the root: a child is one deeper than its parent, its history
\* is the parent's followed by the parent's state, and the chain ends in the
\* root at depth 0.
ChainWellFormed(n) ==
    IF n.parent = <<>>
    THEN n.depth = 0 /\ n.path_history = <<>>
    ELSE /\ n.depth = n.parent[1].depth + 1
         /\ n.depth > n.parent[1].depth
         /\ n.path_history = Append(n.parent[1].path_history, n.parent[1].state)
         /\ ChainWellFormed(n.parent[1])

(* -------------------------------- claims ------------------------------ *)

\* C1: in breadth mode the first candidate evaluated at or above the success
\* threshold is returned the moment it is created: solve has ended, solved,
\* with that candidate's path, score and depth, nodes_explored is the number
\* of candidates evaluated up to and including it, and no generator or
\* evaluator call was made after it.
BfsFirstHitReturned ==
    (strategy = "bfs" /\ log.hit # <<>>) =>
        /\ Returned
        /\ outcome[1].status = "solved"
        /\ outcome[1].solution = log.hit[1].path
        /\ outcome[1].final_score >= SuccessThreshold
        /\ outcome[1].depth = log.hit[1].depth
        /\ outcome[1].nodes_explored = log.hit[1].at
        /\ nodes_explored = log.hit[1].at
        /\ log.evals = log.hit[1].at
        /\ log.gens = log.hit[1].gens

\* C1's case: the root's thoughts are A, DONE and more, only DONE reaches the
\* threshold: depth 1, nodes_explored 2, later candidates never evaluated.
BfsFirstHitWitness ==
    /\ strategy = "bfs" /\ Returned
    /\ outcome[1].status = "solved"
    /\ outcome[1].solution = "Start\nDONE"
    /\ outcome[1].depth = 1
    /\ outcome[1].nodes_explored = 2
    /\ log.hit # <<>> /\ log.hit[1].rest > 0

\* C2: in depth mode (max_depth at least 1), once an evaluated score reached
\* the success threshold the outcome solve returns is solved with a score at
\* or above the threshold, and once a node with such a score was popped no
\* further node is expanded.
DfsHitReturned ==
    (strategy = "dfs" /\ max_depth >= 1) =>
        /\ (Returned /\ log.hit # <<>>) =>
               /\ outcome[1].status = "solved"
               /\ outcome[1].final_score >= SuccessThreshold
        /\ log.popHit # <<>> => log.gens = log.popHit[1].gens

\* C3: a solve call (max_depth at least 1, either strategy) all of whose
\* generator calls returned the empty list ends with a failed outcome, after
\* at most one generator call and no evaluator call, and raises nothing.
EmptyGeneratorFails ==
    ( /\ strategy \in {"bfs", "dfs"} /\ max_depth >= 1
      /\ pc = "idle" /\ (outcome # <<>> \/ raised # "")
      /\ log.emptyGens = log.gens ) =>
        /\ raised = ""
        /\ outcome # <<>>
        /\ outcome[1].status = "failed"
        /\ log.gens <= 1
        /\ log.evals = 0

\* C4: in breadth mode (max_depth at least 1, the default 5 included), a
\* solve call whose generator never returned the empty list and all of whose
\* candidates were evaluated below the prune threshold returns a failed
\* outcome with nodes_explored > 0 and no solution, final_score or depth.
AllPrunedFails ==
    ( /\ strategy = "bfs" /\ max_depth >= 1
      /\ Returned
      /\ log.emptyGens = 0
      /\ log.lowEvals = log.evals ) =>
        /\ outcome[1].status = "failed"
        /\ outcome[1].nodes_explored > 0
        /\ DOMAIN outcome[1] \cap {"solution", "final_score", "depth"} = {}

\* C4's case: the default configuration, three candidates, all pruned.
AllPrunedWitness ==
    /\ strategy = "bfs" /\ max_depth = 5 /\ branching_factor = 3
    /\ Returned
    /\ log.emptyGens = 0 /\ log.gens = 1
    /\ log.evals = 3 /\ log.lowEvals = 3
    /\ outcome[1].status = "failed"

\* C5: every non-root node held by the search (frontier, children of the
\* level, stack, best node, returned node) and every non-root ancestor of it
\* scores at least the prune threshold, while nodes_explored counts every
\* evaluated candidate, the pruned ones included.
PrunedNeverMaterialised ==
    /\ \A n \in LiveNodes : ChainAbovePrune(n)
    /\ nodes_explored = log.evals
    /\ log.lowEvals <= nodes_explored

\* C5's case: a node two levels down is returned in a call that pruned.
PrunedWitness ==
    /\ Returned /\ result_node # <<>>
    /\ result_node[1].depth >= 2
    /\ log.lowEvals >= 1
    /\ nodes_explored > result_node[1].depth

\* C6: in breadth mode the frontier never holds more than beam_width nodes,
\* in particular after every completed level.
BeamBound == strategy = "bfs" => Len(queue) <= BeamWidth

\* C6's case: more children survived a level than the beam keeps.
BeamWitness ==
    /\ pc = "bfs_level" /\ depth >= 1
    /\ Len(next_queue) > BeamWidth
    /\ Len(queue) = BeamWidth

\* Two ends of solve calls agree in all but the duration.
SameEnd(a, b) ==
    /\ a.raised = b.raised
    /\ (a.outcome = <<>>) = (b.outcome = <<>>)
    /\ a.outcome # <<>> /\ b.outcome # <<>> =>
           LET x == a.outcome[1]
               y == b.outcome[1]
           IN /\ x.status = y.status
              /\ x.nodes_explored = y.nodes_explored
              /\ x.status = "solved" =>
                     /\ x.solution = y.solution
                     /\ x.final_score = y.final_score
                     /\ x.depth = y.depth

\* C7: with capabilities that are functions of their arguments, a solve call
\* ends as the previous call on the same configuration and problem did: the
\* same status, solution, final_score, depth and nodes_explored.
Deterministic ==
    (det /\ calls >= 2 /\ pc = "idle") =>
        SameEnd([outcome |-> outcome, raised |-> raised], prev[1])

\* C7's case: a second call that explored and returned a solution below the root.
DeterministicWitness ==
    /\ det /\ calls = 2 /\ Returned
    /\ outcome[1].status = "solved"
    /\ outcome[1].depth >= 1
    /\ outcome[1].nodes_explored >= 2
    /\ prev[1].outcome # <<>>

\* C8: every node of the search, and every ancestor of it, is one deeper than
\* its parent with the parent's history followed by the parent's state, so
\* its depth is the length of its history and exceeds every ancestor's; the
\* outcome's depth is that of the returned node.
DepthIsPathLength ==
    /\ \A n \in LiveNodes : ChainWellFormed(n) /\ n.depth = Len(n.path_history)
    /\ (Returned /\ result_node # <<>>) =>
           outcome[1].depth = Len(result_node[1].path_history)

\* C8's case: the breadth traversal returned a node of the second level.
DepthWitness ==
    /\ strategy = "bfs" /\ Returned /\ result_node # <<>>
    /\ result_node[1].depth = 2
    /\ result_node[1].parent[1].state = "DONE"

\* C9: nodes_explored is the number of evaluator calls of the solve call at
\* every point of it, and so is the nodes_explored of the outcome.
ExploredIsEvaluations ==
    /\ nodes_explored = log.evals
    /\ Returned => outcome[1].nodes_explored = log.evals

\* C9's case: an outcome after both pruned and surviving candidates.
ExploredWitness ==
    /\ Returned
    /\ outcome[1].nodes_explored >= 3
    /\ log.lowEvals >= 1
    /\ log.lowEvals < log.evals

\* C10: every step out of the idle state, a solve call starting, leaves
\* nodes_explored at 0, whatever it was and also when the strategy is
\* unknown; the outcome then reports this call's evaluations only.
ResetAtEntry ==
    /\ [][pc = "idle" => nodes_explored' = 0]_vars
    /\ [](Returned => outcome[1].nodes_explored = log.evals)

\* C10's case: a call starts on a Solver whose previous call counted.
ResetWitness ==
    /\ calls = 2 /\ pc # "idle"
    /\ prev[1].outcome # <<>>
    /\ prev[1].outcome[1].nodes_explored >= 2
    /\ nodes_explored = 0

\* C11: on a Solver whose strategy tag is neither of the two supported ones
\* no generator or evaluator call is ever made, no traversal runs, no outcome
\* is produced, solve ends only with the configuration error, and
\* nodes_explored stays 0.
UnknownStrategyFailsFast ==
    strategy \notin {"bfs", "dfs"} =>
        /\ pc = "idle"
        /\ log.gens = 0 /\ log.evals = 0
        /\ outcome = <<>> /\ result_node = <<>>
        /\ raised \in {"", "ValueError"}
        /\ nodes_explored = 0
        /\ LiveNodes = {}

\* C11's case: solve was called with the unknown tag and raised.
UnknownStrategyWitness ==
    /\ strategy = "beam"
    /\ raised = "ValueError"
    /\ outcome = <<>> /\ nodes_explored = 0

\* The first node of s that no node of s outscores.
FirstMax(s) ==
    s[CHOOSE i \in DOMAIN s :
        \A j \in DOMAIN s : /\ s[j].score <= s[i].score
                            /\ j < i => s[j].score < s[i].score]

\* C12: a breadth-first call in which no candidate reached the success
\* threshold ends failed, before max_depth levels are exceeded, when the last
\* level left no surviving child; otherwise it ends after exactly max_depth
\* levels with the highest-scoring node of the final level, the one
\* generated first among equal scores (the root when max_depth is 0).
BfsExhausted ==
    (strategy = "bfs" /\ Returned /\ log.hit = <<>>) =>
        IF log.levels > 0 /\ log.level = <<>>
        THEN /\ outcome[1].status = "failed"
             /\ result_node = <<>>
             /\ log.levels <= max_depth
        ELSE /\ log.levels = max_depth
             /\ outcome[1].status = "solved"
             /\ result_node =
                  <<FirstMax(IF log.levels = 0 THEN <<Root>> ELSE log.level)>>

\* C12's case: the last of max_depth levels ends with two different children
\* of equal top score behind a lower-scoring one, and the first of the two is
\* returned.
BfsExhaustedWitness ==
    /\ strategy = "bfs" /\ Returned /\ log.hit = <<>>
    /\ log.levels = max_depth
    /\ Len(log.level) >= 3
    /\ log.level[1].score < log.level[2].score
    /\ log.level[2].score = log.level[3].score
    /\ log.level[2] # log.level[3]
    /\ result_node = <<log.level[2]>>

\* C12's other case: a level without survivors ends the call as failed.
BfsEmptyLevelWitness ==
    /\ strategy = "bfs" /\ Returned /\ log.hit = <<>>
    /\ log.levels = 2 /\ max_depth = 5 /\ log.level = <<>>
    /\ outcome[1].status = "failed"

\* C13: every outcome carries status, nodes_explored and duration; a solved
\* one carries besides exactly solution, final_score and depth, which are the
\* result node's path history followed by its own state, joined by newlines,
\* its score and its depth; a failed one carries besides exactly reason, and
\* there is no result node.
OutcomeShape ==
    Returned =>
        LET o == outcome[1] IN
        /\ o.status \in {"solved", "failed"}
        /\ o.nodes_explored = nodes_explored
        /\ o.duration \in Durations
        /\ o.status = "solved" =>
             /\ DOMAIN o = {"status", "solution", "final_score", "depth",
                            "nodes_explored", "duration"}
             /\ result_node # <<>>
             /\ o.solution = Join(result_node[1].path_history \o <<result_node[1].state>>)
             /\ o.final_score = result_node[1].score
             /\ o.depth = result_node[1].depth
        /\ o.status = "failed" =>
             /\ DOMAIN o = {"status", "reason", "nodes_explored", "duration"}
             /\ o.reason = "Max depth or no solution found"
             /\ result_node = <<>>

\* C13's case: a solved outcome for a node two steps below the root.
OutcomeShapeWitness ==
    /\ Returned
    /\ outcome[1].status = "solved"
    /\ outcome[1].depth = 2
    /\ outcome[1].solution = "Start\nA\nDONE"
    /\ "reason" \notin DOMAIN outcome[1]

\* C14: a solve call in which a generator call raised still ends with an
\* outcome and without an exception.
GeneratorFailureTolerated ==
    (pc = "idle" /\ log.genErrors > 0) => (raised = "" /\ outcome # <<>>)

\* The text holds a numeral the evaluator reads a score from.
HasNumeral(t) ==
    \E i \in DOMAIN t :
        \/ t[i] = "1"
        \/ t[i] = "0" /\ i + 2 <= Len(t) /\ t[i + 1] = "." /\ t[i + 2] \in Digits

\* C15: LLMEvaluator.evaluate raises nothing when the model call returns or
\* raises an error (an exception of class Exception); it returns 0.5 when
\* the model call raised an error, returned no string, or returned a text
\* without a score numeral; and every value it returns lies in [0, 1].
EvaluatorNeverFails ==
    llm_score # <<>> =>
        LET r == llm_response
            e == llm_score[1]
        IN /\ r.kind # "exit" => ~e.raised
           /\ (r.kind \in {"error", "none"} \/ (r.kind = "text" /\ ~HasNumeral(r.text)))
                => (~e.raised /\ 2 * e.value.num = e.value.den)
           /\ ~e.raised => (e.value.den > 0 /\ 0 <= e.value.num /\ e.value.num <= e.value.den)

\* C15's case: the model call raised an error and evaluate returned 0.5.
EvaluatorNeverFailsWitness ==
    /\ llm_score # <<>>
    /\ llm_response.kind = "error"
    /\ llm_score[1] = [raised |-> FALSE, value |-> Fallback]

\* C15's other cases: a numeral behind other text is read, a text without
\* one yields 0.5.
EvaluatorReadsWitness ==
    /\ llm_score # <<>>
    /\ llm_response = [kind |-> "text", text |-> <<"7", "0", ".", "7">>]
    /\ llm_score[1].value = [num |-> 7, den |-> 10]
EvaluatorFallbackWitness ==
    /\ llm_score # <<>>
    /\ llm_response = [kind |-> "text", text |-> <<"7", ".", "0", " ">>]
    /\ llm_score[1].value = Fallback

RECURSIVE Weight(_)
\* What a stacked node of depth d can still cost: 1 to pop it, and below
\* max_depth + 1 also its expansion, a pending thought costing the child it
\* may push and 1.
Weight(d) ==
    IF d > max_depth THEN 1 ELSE 2 + MaxThoughts * (Weight(d + 1) + 1)

RECURSIVE StackWeight(_)
StackWeight(st) ==
    IF st = <<>> THEN 0 ELSE Weight(st[1].depth) + StackWeight(Tail(st))

\* The work a running traversal has left, compared position by position.
\* Breadth: levels left, whether the level is still to be entered, nodes of
\* the frontier left (twice, plus 1 before a node's generator call),
\* thoughts of the node left. Depth: the weight of the stack and of the
\* thoughts left.
Measure ==
    IF pc = "bfs_level" THEN <<max_depth - depth, 1, 0, 0>>
    ELSE IF pc = "bfs_node" THEN <<max_depth - depth, 0, 2 * (Len(queue) + 1 - qi) + 1, 0>>
    ELSE IF pc = "bfs_thought"
         THEN <<max_depth - depth, 0, 2 * (Len(queue) + 1 - qi), Len(thoughts) + 1 - ti>>
    ELSE IF pc = "dfs_pop" THEN <<StackWeight(stack), 0, 0, 0>>
    ELSE IF pc = "dfs_thought"
         THEN <<StackWeight(stack) + ti * (Weight(node[1].depth + 1) + 1), 0, 0, 0>>
    ELSE <<0, 0, 0, 0>>

LexLess(a, b) ==
    \E i \in 1..4 : a[i] < b[i] /\ \A j \in 1..(i - 1) : a[j] = b[j]

\* The generator has a list to return for node n.
GeneratorReturns(n) ==
    \E r \in GenerateThoughts(GenState(n), Problem, branching_factor) :
        r.ok /\ Len(r.val) <= Budget - log.evals

\* The running traversal is at a step it can take once the capability it
\* calls there returns.
CanStep ==
    IF pc = "bfs_node"
    THEN \/ qi = Len(queue) + 1
         \/ qi \in DOMAIN queue /\ (Solved(queue[qi]) \/ GeneratorReturns(queue[qi]))
    ELSE IF pc = "dfs_pop"
    THEN \/ stack = <<>> /\ best_node # <<>>
         \/ /\ stack # <<>> /\ best_node # <<>>
            /\ LET n == stack[Len(stack)] IN
               TooDeep(n, max_depth) \/ Solved(n) \/ GeneratorReturns(n)
    ELSE IF pc \in {"bfs_thought", "dfs_thought"}
    THEN /\ node # <<>> /\ ti \in DOMAIN thoughts
         /\ \E r \in Evaluate(FullState(node[1], thoughts[ti]), Problem) : r.ok
    ELSE pc \in {"bfs_level", "idle"}

\* C16: solve terminates in both strategies. Every step of a running call
\* either ends the call or strictly lowers Measure, whose four positions
\* are natural numbers, and a running call can always take its next step
\* when the generator returns a finite list and the evaluator returns: no
\* call runs forever.
SolveTerminates ==
    /\ [][pc # "idle" => (pc' = "idle" \/ LexLess(Measure', Measure))]_vars
    /\ []((\A i \in 1..4 : Measure[i] \in Nat) /\ CanStep)

\* C16's case: a depth-first call over a three-deep tree has ended, having
\* popped and skipped a node below max_depth on the way.
SolveTerminatesWitness ==
    /\ strategy = "dfs" /\ max_depth = 1 /\ Returned
    /\ log.gens >= 2 /\ log.evals >= 3

\* How many children of the level g go before its i-th one: those of
\* higher score, and those of equal score generated earlier.
Rank(g, i) ==
    Cardinality({j \in DOMAIN g :
        g[j].score > g[i].score \/ (g[j].score = g[i].score /\ j < i)})

\* C17: from the end of a breadth level on, the frontier holds the
\* BeamWidth children of that level that go first by score, higher first,
\* and among equal scores by generation, earlier first, in that order: its
\* scores never increase, and no child left out outscores one kept.
BeamIsStableTop ==
    (pc \in {"bfs_level", "bfs_node", "bfs_thought"} /\ log.levels >= 1) =>
        LET g == log.level IN
        /\ Len(queue) = IF Len(g) < BeamWidth THEN Len(g) ELSE BeamWidth
        /\ \A i \in DOMAIN g :
              IF Rank(g, i) < BeamWidth
              THEN queue[Rank(g, i) + 1] = g[i]
              ELSE \A k \in DOMAIN queue : queue[k].score >= g[i].score
        /\ \A k \in 1..(Len(queue) - 1) : queue[k].score >= queue[k + 1].score

\* C17's case: six children survive a level, the first and the last with the
\* same lowest score; the first is kept, in the last place, and the last is
\* left out.
BeamIsStableTopWitness ==
    /\ pc = "bfs_level" /\ log.levels = 1
    /\ Len(log.level) = 6 /\ Len(queue) = BeamWidth
    /\ log.level[1].score = 30 /\ log.level[6].score = 30
    /\ log.level[1] # log.level[6]
    /\ \A i \in 2..5 : log.level[i].score = 70
    /\ queue[BeamWidth] = log.level[1]
    /\ queue[1] = log.level[2]

\* Place a is that of b or of an ancestor of b.
IsPrefix(a, b) == Len(a) <= Len(b) /\ SubSeq(b, 1, Len(a)) = a

\* Places of two different children of one node.
Siblings(a, b) ==
    /\ Len(a) = Len(b) /\ Len(a) >= 1 /\ a # b
    /\ SubSeq(a, 1, Len(a) - 1) = SubSeq(b, 1, Len(b) - 1)

\* Node n is the node generated at the place: as deep as the place is long,
\* its own state and every step of its history the thought of that index.
AtPlace(n, place) ==
    /\ n.depth = Len(place)
    /\ Len(n.path_history) = Len(place)
    /\ place # <<>> => n.state = PoolAt(place[Len(place)])
    /\ \A k \in 1..(Len(place) - 1) : n.path_history[k + 1] = PoolAt(place[k])

Least(idxs) == CHOOSE i \in Elems(idxs) : \A j \in Elems(idxs) : i <= j

\* C18: in a depth-first call the surviving children of a node are popped in
\* the order they were generated. When an expansion has pushed children, the
\* top of the stack, the next node popped, is the first-generated survivor
\* of the node just popped; of two children of one node the one generated
\* first is popped first; and once the later one is popped, no node below
\* the earlier one is on the stack or popped any more.
DfsGenerationOrder ==
    (trace /\ pc \in {"dfs_pop", "dfs_thought"}) =>
        LET P == log.pops IN
        /\ Len(log.places) = Len(stack)
        /\ \A i \in DOMAIN stack : AtPlace(stack[i], log.places[i])
        /\ \A a \in DOMAIN P : AtPlace(P[a].node, P[a].place)
        /\ (pc = "dfs_pop" /\ log.pushed # <<>>) =>
              /\ stack # <<>>
              /\ log.places[Len(stack)] = Append(P[Len(P)].place, Least(log.pushed))
              /\ stack[Len(stack)].parent = <<P[Len(P)].node>>
        /\ \A a, c \in DOMAIN P :
              (a < c /\ Siblings(P[a].place, P[c].place)) =>
                  /\ P[a].place[Len(P[a].place)] < P[c].place[Len(P[c].place)]
                  /\ \A b \in DOMAIN P : b > c => ~IsPrefix(P[a].place, P[b].place)
                  /\ \A i \in DOMAIN stack : ~IsPrefix(P[a].place, log.places[i])

\* C18's case: the root's first child, that child's child, and only then
\* the root's second child have been popped.
DfsGenerationOrderWitness ==
    /\ pc = "dfs_pop"
    /\ Len(log.pops) >= 4
    /\ log.pops[2].place = <<1>>
    /\ log.pops[3].place = <<1, 1>>
    /\ log.pops[4].place = <<2>>
    /\ log.pops[4].node.score >= log.pops[2].node.score

RECURSIVE Eligible(_)
\* The popped nodes that were not skipped as too deep, in pop order.
Eligible(pops) ==
    IF pops = <<>> THEN <<>>
    ELSE IF pops[1].node.depth > max_depth THEN Eligible(Tail(pops))
    ELSE <<pops[1].node>> \o Eligible(Tail(pops))

\* C19: in a depth-first call best_node is, after every expansion, the
\* first-popped node of top score among the popped nodes of depth at most
\* max_depth, the root being the first of them; when the stack is empty
\* none of these reached the success threshold and the call returns that
\* node, which is the root when none scored above the root's 0.5.
DfsReturnsBest ==
    /\ []((trace /\ pc \in {"dfs_pop", "dfs_thought"} /\ log.pops # <<>>) =>
            /\ Eligible(log.pops) # <<>>
            /\ Eligible(log.pops)[1] = Root
            /\ best_node = <<FirstMax(Eligible(log.pops))>>
            /\ stack = <<>> => \A i \in DOMAIN Eligible(log.pops) :
                                  Eligible(log.pops)[i].score < SuccessThreshold)
    /\ [][(trace /\ pc = "dfs_pop" /\ stack = <<>>) =>
            /\ Returned'
            /\ result_node' = <<FirstMax(Eligible(log.pops))>>
            /\ (\A i \in DOMAIN Eligible(log.pops) :
                    Eligible(log.pops)[i].score <= RootScore) => result_node' = <<Root>>]_vars

\* C19's case: the stack has emptied after two different nodes of the same
\* top score, above the root's, were popped and expanded, and after a node
\* below max_depth was popped and skipped; best_node is the first of the two.
DfsReturnsBestWitness ==
    /\ pc = "dfs_pop" /\ stack = <<>>
    /\ Len(log.pops) > Len(Eligible(log.pops))
    /\ \E a, c \in DOMAIN log.pops :
          /\ a < c
          /\ log.pops[a].node # log.pops[c].node
          /\ log.pops[a].node.score = 70 /\ log.pops[c].node.score = 70
          /\ log.pops[c].node.depth <= max_depth
          /\ best_node = <<log.pops[a].node>>

\* C20: every generator call gets the problem, branching_factor, and as
\* state the empty text for the root and the node's own state text for any
\* other node; it never gets the root marker.
GeneratorGetsOwnState ==
    log.genCall # <<>> =>
        LET c == log.genCall[1] IN
        /\ c.problem = Problem /\ c.n = branching_factor
        /\ c.state = IF c.root THEN "" ELSE c.own
        /\ c.state # Root.state

\* What holds of C20 in the code: the root's call gets the empty text, no
\* call gets the root marker, and a node whose text is not the root marker
\* gets its own text.
GeneratorNeverGetsMarker ==
    log.genCall # <<>> =>
        LET c == log.genCall[1] IN
        /\ c.problem = Problem /\ c.n = branching_factor
        /\ c.root => c.state = ""
        /\ c.own # Root.state => c.state = c.own
        /\ c.state # Root.state

\* C21: with an evaluator that is a function of its arguments, every node
\* built from a candidate has the score the evaluator gave for the node's
\* own full path, so the text evaluated for the candidate is the full path
\* of the child; and the final_score of a solved outcome of depth 1 or more
\* is the one score the evaluator gave for the solution text.
EvaluatedAsBuilt ==
    det =>
        /\ \A n \in LiveNodes :
              n.parent # <<>> =>
                  /\ GetFullPath(n) = GetFullPath(n.parent[1]) \o "\n" \o n.state
                  /\ Lookup(evalMemo, <<GetFullPath(n), Problem>>)
                        = {[ok |-> TRUE, val |-> n.score]}
        /\ (Returned /\ outcome[1].status = "solved" /\ outcome[1].depth >= 1) =>
              Lookup(evalMemo, <<outcome[1].solution, Problem>>)
                  = {[ok |-> TRUE, val |-> outcome[1].final_score]}

\* C21's case: a solved outcome two steps below the root, its solution text
\* among the texts the evaluator was asked about.
EvaluatedAsBuiltWitness ==
    /\ det /\ Returned
    /\ outcome[1].status = "solved" /\ outcome[1].depth = 2
    /\ outcome[1].solution = "Start\nA\nDONE"
    /\ Lookup(evalMemo, <<"Start\nA\nDONE", Problem>>) # {}

\* C22: in a depth-first call of a Solver whose generator returns at most
\* branching_factor thoughts per call, the stack never holds more than
\* branching_factor * (max_depth + 1) nodes.
DfsStackBound ==
    (strategy = "dfs" /\ generator = "LLMGenerator") =>
        Len(stack) <= branching_factor * (max_depth + 1)

\* C22's case: the stack holds as many nodes as the bound allows, children
\* of a root that was expanded with max_depth 0.
DfsStackBoundWitness ==
    /\ strategy = "dfs" /\ generator = "LLMGenerator"
    /\ pc = "dfs_pop"
    /\ Len(stack) = branching_factor * (max_depth + 1)
    /\ \A i \in DOMAIN stack : stack[i].depth = 1

\* C22's other case: a stack of three below a bound of four, with nodes of
\* two depths.
DfsStackDeepWitness ==
    /\ strategy = "dfs" /\ generator = "LLMGenerator" /\ max_depth = 1
    /\ Len(stack) = 3 /\ stack[1].depth = 1 /\ stack[3].depth = 2

\* C23: in a breadth-first call with max_depth of 1 or more no node of the
\* frontier scores the success threshold or more, so the success check
\* ahead of an expansion never fires, and the node returned is never the
\* root.
BfsFrontierBelowSuccess ==
    (strategy = "bfs" /\ max_depth >= 1) =>
        /\ \A i \in DOMAIN queue : queue[i].score < SuccessThreshold
        /\ \A i \in DOMAIN queue : ~Solved(queue[i])
        /\ result_node # <<Root>>
        /\ Returned /\ outcome[1].status = "solved" => outcome[1].depth >= 1

\* C23's case: a child that reached the threshold on the second level was
\* returned as it was built, after a first level whose children all stayed
\* below the threshold.
BfsFrontierWitness ==
    /\ strategy = "bfs" /\ max_depth >= 1 /\ Returned
    /\ log.levels = 1 /\ Len(log.level) >= 2
    /\ log.hit # <<>> /\ log.hit[1].depth = 2
    /\ result_node # <<>> /\ result_node[1].score = SuccessThreshold

\* C24: a breadth-first call returns a node that scores below the success
\* threshold only after all max_depth levels, and that node has depth
\* max_depth; a solved outcome of lesser depth has a final_score of the
\* threshold or more.
BfsBelowThresholdAtMaxDepth ==
    (strategy = "bfs" /\ Returned /\ outcome[1].status = "solved") =>
        /\ outcome[1].final_score < SuccessThreshold =>
              /\ log.levels = max_depth
              /\ outcome[1].depth = max_depth
        /\ outcome[1].depth < max_depth =>
              outcome[1].final_score >= SuccessThreshold

\* C24's case: the single level of a max_depth 1 call ended and its best
\* child, below the threshold, was returned.
BfsBelowThresholdWitness ==
    /\ strategy = "bfs" /\ max_depth = 1 /\ Returned
    /\ outcome[1].status = "solved"
    /\ outcome[1].final_score = 70 /\ outcome[1].depth = 1
    /\ log.levels = 1 /\ Len(log.level) >= 2

\* C24's other case: a solved outcome above max_depth's depth, on the
\* threshold.
BfsEarlyHitWitness ==
    /\ strategy = "bfs" /\ max_depth = 5 /\ Returned
    /\ outcome[1].status = "solved"
    /\ outcome[1].depth = 2 /\ outcome[1].final_score = SuccessThreshold

\* The nodes a depth-first call has popped, the one its next step pops
\* among them.
Popped ==
    {log.pops[i].node : i \in DOMAIN log.pops}
        \cup (IF stack # <<>> THEN {stack[Len(stack)]} ELSE {})

\* C25: whenever a depth-first call returns, its outcome is solved with a
\* final_score of the root's 0.5 or more; a node other than the root is
\* returned only with a score strictly above 0.5; and a call in which no
\* popped node scored strictly above 0.5 returns the root: depth 0, the
\* root marker alone as solution.
DfsAlwaysSolved ==
    /\ []((strategy = "dfs" /\ Returned) =>
            /\ outcome[1].status = "solved"
            /\ outcome[1].final_score >= RootScore
            /\ result_node # <<Root>> => result_node[1].score > RootScore
            /\ result_node = <<Root>> =>
                  (outcome[1].depth = 0 /\ outcome[1].solution = "Start"))
    /\ [][(trace /\ pc \in {"dfs_pop", "dfs_thought"} /\ Returned'
              /\ \A n \in Popped : n.score <= RootScore) =>
            /\ result_node' = <<Root>>
            /\ outcome'[1].depth = 0
            /\ outcome'[1].solution = "Start"
            /\ outcome'[1].final_score = RootScore]_vars

\* C25's case: the stack has emptied after a child that scored 0.5, within
\* max_depth, was popped and expanded, no popped node scored more, and
\* best_node is still the root.
DfsAlwaysSolvedWitness ==
    /\ trace /\ pc = "dfs_pop" /\ stack = <<>>
    /\ best_node = <<Root>>
    /\ \A n \in Popped : n.score <= RootScore
    /\ \E i \in DOMAIN log.pops :
          /\ log.pops[i].node.depth = 1 /\ max_depth >= 1
          /\ log.pops[i].node.score = RootScore
    /\ log.gens >= 2

\* C26: in both strategies the node a solved outcome reports has a depth
\* from 0 to max_depth, whatever was evaluated below.
SolvedDepthInBudget ==
    (Returned /\ outcome[1].status = "solved") =>
        /\ outcome[1].depth \in 0..max_depth
        /\ result_node[1].depth \in 0..max_depth

\* C26's case: a depth-first call evaluated a path below max_depth at the
\* success threshold and returned a node within max_depth.
SolvedDepthWitness ==
    /\ strategy = "dfs" /\ Returned
    /\ log.hit # <<>> /\ log.hit[1].depth = max_depth + 1
    /\ outcome[1].status = "solved"
    /\ outcome[1].depth <= max_depth
    /\ outcome[1].final_score < SuccessThreshold

\* C26's other case: a breadth-first call returned a node of depth
\* max_depth.
SolvedDepthBfsWitness ==
    /\ strategy = "bfs" /\ Returned /\ max_depth = 1
    /\ outcome[1].status = "solved" /\ outcome[1].depth = 1
    /\ outcome[1].final_score = SuccessThreshold

\* C27: no node of depth max_depth or more is expanded: every candidate
\* evaluated would sit at a depth of max_depth at most.
EvaluatedWithinDepth ==
    pc \in {"bfs_thought", "dfs_thought"} => node[1].depth + 1 <= max_depth

\* What holds of C27 in the code: breadth-first calls evaluate candidates
\* down to depth max_depth, depth-first calls down to max_depth + 1.
EvaluatedWithinDepthPlusOne ==
    /\ pc = "bfs_thought" => node[1].depth + 1 <= max_depth
    /\ pc = "dfs_thought" => node[1].depth + 1 <= max_depth + 1

\* The bound of C28 on nodes_explored.
ExploredBound == branching_factor * (1 + BeamWidth * (max_depth - 1))

\* Generator calls a breadth-first call can have made when d levels are
\* done: one for the root, BeamWidth for each level behind the first.
GensBehind(d) == IF d = 0 THEN 0 ELSE 1 + BeamWidth * (d - 1)

====
